---- MODULE Spec2Model ----
(***************************************************************************)
(* A model of django_tables/tables.py: the declarative column collector,   *)
(* the per-table column registry (Columns) and the snapshot / sort         *)
(* pipeline of BaseTable.                                                  *)
(*                                                                         *)
(* Python strings are sequences of one-character strings, so that          *)
(* splitting, prefix stripping and the iteration of a string are computed  *)
(* as Python computes them.  Every other Python value that the program     *)
(* stores in order_by or in _snapshot is a record [kind, v].               *)
(***************************************************************************)
EXTENDS Integers, Sequences, FiniteSets, TLC

(* ----------------------------- bounds ---------------------------------- *)
\* longest raw data sequence handed to a table
MaxRows == 3
\* number of changes made to one instance's base_columns
MaxMut == 1
\* columns in one class body and in one base class's mapping
MaxCols == 2
\* a count of snapshot builds stops growing here
MaxBuilds == 2

(* ------------------------- Python values ------------------------------- *)
None == [kind |-> "none", v |-> <<>>]
Str(s) == [kind |-> "str", v |-> s]
Tuple(xs) == [kind |-> "tuple", v |-> xs]
List(xs) == [kind |-> "list", v |-> xs]
\* OrderByTuple is a tuple subclass: it compares equal to the plain tuple
OrderByTuple(xs) == Tuple(xs)

\* the value None inside a row, ordered by cmp() before every number
NoneVal == -1

\* truth value of a Python object (if x: ...)
Truthy(x) == x.kind # "none" /\ x.v # <<>>

\* the items produced by "for o in x"; a string yields its characters
Iter(x) == IF x.kind = "str" THEN [i \in 1..Len(x.v) |-> <<x.v[i]>>] ELSE x.v

\* the built-in cmp() on row values
cmp(a, b) == IF a < b THEN -1 ELSE IF a > b THEN 1 ELSE 0

\* s[:1] and s[1:]
First1(s) == IF s = <<>> THEN <<>> ELSE <<s[1]>>
From1(s) == IF s = <<>> THEN <<>> ELSE Tail(s)

RECURSIVE SplitFrom(_, _, _, _)
SplitFrom(s, i, cur, acc) ==
    IF i > Len(s) THEN Append(acc, cur)
    ELSE IF s[i] = "," THEN SplitFrom(s, i + 1, <<>>, Append(acc, cur))
    ELSE SplitFrom(s, i + 1, Append(cur, s[i]), acc)

\* value.split(',')
Split(s) == SplitFrom(s, 1, <<>>, <<>>)

(* ------------------ names used by the tables of the model -------------- *)
A == <<"a">>
B == <<"b">>
C == <<"c">>
AB == <<"a", "b">>
Z == <<"z">>
Q == <<"q">>
NoName == <<>>

(* ----------------------------- SortedDict ------------------------------ *)
\* an ordered mapping, kept as the sequence of its [key, value] items
Item(k, v) == [key |-> k, value |-> v]
SDKeys(d) == [i \in 1..Len(d) |-> d[i].key]
SDValues(d) == [i \in 1..Len(d) |-> d[i].value]
SDHas(d, k) == \E i \in 1..Len(d) : d[i].key = k
SDGet(d, k) == d[CHOOSE i \in 1..Len(d) : d[i].key = k].value
\* d[k] = v: an existing key keeps its position, a new key is appended
SDSet(d, k, v) ==
    IF SDHas(d, k)
    THEN [i \in 1..Len(d) |-> IF d[i].key = k THEN [key |-> k, value |-> v] ELSE d[i]]
    ELSE Append(d, [key |-> k, value |-> v])
SDDel(d, k) == SelectSeq(d, LAMBDA it : it.key # k)

RECURSIVE SDUpdateFrom(_, _, _)
SDUpdateFrom(d, items, i) ==
    IF i > Len(items) THEN d
    ELSE SDUpdateFrom(SDSet(d, items[i].key, items[i].value), items, i + 1)

\* d.update(SortedDict(items)) and SortedDict(items) itself
SDUpdate(d, items) == SDUpdateFrom(d, items, 1)

(* ------------------------------- Column -------------------------------- *)
Column(name, sortable, visible, default, counter) ==
    [name |-> name, sortable |-> sortable, visible |-> visible,
     default |-> default, creation_counter |-> counter]

(* -------------------- DeclarativeColumnsMetaclass ---------------------- *)
\* a class namespace (attrs): ns holds its items other than base_columns, in
\* the order attrs.items() gives them; base_columns is <<>> or <<mapping>>.
\* An object of the namespace is a Column or something else.
ColumnObj(column) == [type |-> "Column", col |-> <<column>>]
OtherObj == [type |-> "other", col |-> <<>>]
IsColumn(obj) == obj.type = "Column"
IsColumnItem(it) == IsColumn(it.value)
IsOtherItem(it) == ~IsColumn(it.value)

\* a base class: the mappings it has as base_columns and as the attribute a
\* derived metaclass names in parent_cols_from, each <<>> or <<mapping>>
BaseClass(base_columns, declared_columns) ==
    [base_columns |-> base_columns, declared_columns |-> declared_columns]
NoAttr == ""
HasAttr(base, attr) ==
    IF attr = "base_columns" THEN base.base_columns # <<>>
    ELSE base.declared_columns # <<>>
GetAttr(base, attr) ==
    IF attr = "base_columns" THEN base.base_columns[1] ELSE base.declared_columns[1]

\* the (column_name, attrs.pop(column_name)) pairs of the Column attributes
ExtractColumns(ns) ==
    LET cs == SelectSeq(ns, IsColumnItem)
    IN  [i \in 1..Len(cs) |-> [key |-> cs[i].key, value |-> cs[i].value.col[1]]]

\* the namespace after the pops
Popped(ns) == SelectSeq(ns, IsOtherItem)

CounterInsertAt(acc, x) ==
    LET le == {j \in 1..Len(acc) :
                  acc[j].value.creation_counter <= x.value.creation_counter}
    IN  IF le = {} THEN 0 ELSE CHOOSE j \in le : \A k \in le : k <= j

RECURSIVE SortByCounterFrom(_, _, _)
SortByCounterFrom(columns, i, acc) ==
    IF i > Len(columns) THEN acc
    ELSE LET p == CounterInsertAt(acc, columns[i])
         IN  SortByCounterFrom(columns, i + 1,
                 SubSeq(acc, 1, p) \o <<columns[i]>> \o SubSeq(acc, p + 1, Len(acc)))

\* columns.sort(...) by creation_counter
SortByCounter(columns) == SortByCounterFrom(columns, 1, <<>>)

\* the attribute of a base that holds its columns
ColAttr(base, parent_cols_from) ==
    IF parent_cols_from # NoAttr /\ HasAttr(base, parent_cols_from)
    THEN parent_cols_from ELSE "base_columns"

\* the columns of a base are put behind the ones collected so far
WithBaseAfter(items, columns) == columns \o items

\* columns = getattr(base, col_attr).items() + columns
WithBase(items, columns) == items \o columns

RECURSIVE AddBasesFrom(_, _, _, _)
AddBasesFrom(bases, i, parent_cols_from, columns) ==
    IF i < 1 THEN columns
    ELSE LET col_attr == ColAttr(bases[i], parent_cols_from)
         IN  AddBasesFrom(bases, i - 1, parent_cols_from,
                 IF HasAttr(bases[i], col_attr)
                 THEN WithBase(GetAttr(bases[i], col_attr), columns)
                 ELSE columns)

\* the loop over bases[::-1]
AddBases(bases, parent_cols_from, columns) ==
    AddBasesFrom(bases, Len(bases), parent_cols_from, columns)

\* attrs['base_columns'] after the update; an existing mapping is reused
Merged(existing, columns) ==
    SDUpdate(IF existing = <<>> THEN <<>> ELSE existing[1], SDUpdate(<<>>, columns))

\* DeclarativeColumnsMetaclass.__new__: the namespace handed to type.__new__
MetaNew(bases, attrs, parent_cols_from) ==
    LET columns == SortByCounter(ExtractColumns(attrs.ns))
        all == AddBases(bases, parent_cols_from, columns)
    IN  [ns |-> Popped(attrs.ns), base_columns |-> <<Merged(attrs.base_columns, all)>>]

(* ----------------------------- BoundColumn ----------------------------- *)
\* id is the identity of the wrapper object
BoundColumn(id, column, name) ==
    [id |-> id, column |-> column, declared_name |-> name,
     sortable |-> column.sortable, visible |-> column.visible]

\* BoundColumn.name
BoundName(bc) == IF bc.column.name # NoName THEN bc.column.name ELSE bc.declared_name

(* ------------------------------- Columns ------------------------------- *)
\* the registry state: cols is Columns._columns, n counts the wrappers created
ExposedName(decl_name, column) == IF column.name # NoName THEN column.name ELSE decl_name

Respawned(existing, fresh) == fresh

\* "new_columns[exposed_name] = self._columns[exposed_name]": the existing
\* wrapper object is kept, no BoundColumn is created
Reused(existing, fresh) == existing

RECURSIVE SpawnFrom(_, _, _, _, _)
SpawnFrom(items, i, old, new, n) ==
    IF i > Len(items) THEN [cols |-> new, n |-> n]
    ELSE LET decl_name == items[i].key
             column == items[i].value
             exposed_name == ExposedName(decl_name, column)
         IN  IF SDHas(old, exposed_name)
             THEN SpawnFrom(items, i + 1, old,
                            SDSet(new, exposed_name,
                                  Reused(SDGet(old, exposed_name),
                                         BoundColumn(n + 1, column, decl_name))), n)
             ELSE SpawnFrom(items, i + 1, old,
                            SDSet(new, exposed_name, BoundColumn(n + 1, column, decl_name)),
                            n + 1)

_spawn_columns(reg, bcols) == SpawnFrom(bcols, 1, reg.cols, <<>>, reg.n)

\* Columns.all(): every bound column, hidden ones included
ColumnsAll(reg, bcols) ==
    LET r == _spawn_columns(reg, bcols)
    IN  [reg |-> r, val |-> SDValues(r.cols)]

\* Columns.names()
ColumnsNames(reg, bcols) ==
    LET r == _spawn_columns(reg, bcols)
    IN  [reg |-> r, val |-> SDKeys(r.cols)]

IsVisible(bc) == bc.column.visible

\* Columns.__iter__(): the visible bound columns
ColumnsIter(reg, bcols) ==
    LET a == ColumnsAll(reg, bcols)
    IN  [reg |-> a.reg, val |-> SelectSeq(a.val, IsVisible)]

\* Columns.__contains__() for a string item
ColumnsContains(reg, bcols, item) ==
    LET r == _spawn_columns(reg, bcols)
        ns == ColumnsNames(r, bcols)
    IN  [reg |-> ns.reg, val |-> \E i \in 1..Len(ns.val) : ns.val[i] = item]

\* Columns.__getitem__(): val holds the bound column unless err is KeyError
ColumnsGetItem(reg, bcols, name) ==
    LET r == _spawn_columns(reg, bcols)
    IN  IF SDHas(r.cols, name)
        THEN [reg |-> r, err |-> "none", val |-> <<SDGet(r.cols, name)>>]
        ELSE [reg |-> r, err |-> "KeyError", val |-> <<>>]

(* ------------------------------ sort_table ----------------------------- *)
\* a row is a dict: a function from the keys it holds to their values
DictGet(d, k) == IF k \in DOMAIN d THEN d[k] ELSE NoneVal

StartsWithDash(o) == o # <<>> /\ o[1] = "-"

\* the (name, reverse) pairs built from the field names
Instructions(order_by) ==
    [i \in 1..Len(order_by) |->
        IF StartsWithDash(order_by[i])
        THEN [name |-> From1(order_by[i]), reverse |-> TRUE]
        ELSE [name |-> order_by[i], reverse |-> FALSE]]

\* the direction of a key is ignored
Undirected(res, reverse) == res

\* "reverse and -res or res" for res # 0
Directed(res, reverse) == IF reverse THEN -res ELSE res

RECURSIVE CmpFrom(_, _, _, _)
CmpFrom(x, y, instructions, i) ==
    IF i > Len(instructions) THEN 0
    ELSE LET res == cmp(DictGet(x, instructions[i].name), DictGet(y, instructions[i].name))
         IN  IF res # 0 THEN Directed(res, instructions[i].reverse)
             ELSE CmpFrom(x, y, instructions, i + 1)

\* the comparison function _cmp of sort_table
_cmp(x, y, instructions) == CmpFrom(x, y, instructions, 1)

\* where list.sort() puts x among the already sorted acc: behind the last
\* element that does not compare greater than x (the sort is stable)
InsertAt(acc, x, heap, instructions) ==
    LET le == {j \in 1..Len(acc) : _cmp(heap[acc[j]], heap[x], instructions) <= 0}
    IN  IF le = {} THEN 0 ELSE CHOOSE j \in le : \A k \in le : k <= j

RECURSIVE ListSortFrom(_, _, _, _, _)
ListSortFrom(ids, i, acc, heap, instructions) ==
    IF i > Len(ids) THEN acc
    ELSE LET p == InsertAt(acc, ids[i], heap, instructions)
         IN  ListSortFrom(ids, i + 1,
                          SubSeq(acc, 1, p) \o <<ids[i]>> \o SubSeq(acc, p + 1, Len(acc)),
                          heap, instructions)

\* sort_table(data, order_by): data is a list of references to rows of heap
sort_table(data, heap, order_by) ==
    ListSortFrom(data, 1, <<>>, heap, Instructions(order_by))

(* ------------------------------ BaseTable ------------------------------ *)
RECURSIVE ColsToFieldsFrom(_, _, _, _, _)
ColsToFieldsFrom(idents, i, reg, bcols, result) ==
    IF i > Len(idents) THEN [reg |-> reg, err |-> "none", val |-> result]
    ELSE LET ident == idents[i]
             dashed == First1(ident) = <<"-">>
             name == IF dashed THEN From1(ident) ELSE ident
             prefix == IF dashed THEN <<"-">> ELSE <<>>
             g == ColumnsGetItem(reg, bcols, name)
         IN  IF g.err # "none" THEN [reg |-> g.reg, err |-> g.err, val |-> <<>>]
             ELSE ColsToFieldsFrom(idents, i + 1, g.reg, bcols,
                                   Append(result, prefix \o g.val[1].declared_name))

\* BaseTable._cols_to_fields(names); a missing column raises KeyError
_cols_to_fields(reg, bcols, names) == ColsToFieldsFrom(Iter(names), 1, reg, bcols, <<>>)

\* BaseTable._validate_column_name(name, 'order_by')
_validate_column_name(reg, bcols, name) ==
    LET c == ColumnsContains(reg, bcols, name)
    IN  IF ~c.val THEN [reg |-> c.reg, val |-> FALSE]
        ELSE LET g == ColumnsGetItem(c.reg, bcols, name)
             IN  [reg |-> g.reg, val |-> g.val[1].column.sortable]

\* (isinstance(value, basestring) and [value.split(',')] or [value])[0]
SplitValue(value) == IF value.kind = "str" THEN List(Split(value.v)) ELSE value

\* (o[:1]=='-' and [o[1:]] or [o])[0]
StripDash(o) == IF First1(o) = <<"-">> THEN From1(o) ELSE o

RECURSIVE ValidFrom(_, _, _, _, _)
ValidFrom(idents, i, reg, bcols, kept) ==
    IF i > Len(idents) THEN [reg |-> reg, val |-> kept]
    ELSE LET ok == _validate_column_name(reg, bcols, StripDash(idents[i]))
         IN  ValidFrom(idents, i + 1, ok.reg, bcols,
                       IF ok.val THEN Append(kept, idents[i]) ELSE kept)

\* the cached snapshot survives the assignment
Kept(snapshot) == snapshot

\* the snapshot left by the first statement of _set_order_by
Invalidated(snapshot) == None

\* BaseTable._set_order_by(value): order_by is what self._order_by holds when
\* the method returns or raises (iterating None raises TypeError)
_set_order_by(reg, bcols, snapshot, value) ==
    LET raw == SplitValue(value)
    IN  IF raw.kind = "none"
        THEN [reg |-> reg, snapshot |-> Invalidated(snapshot), order_by |-> raw,
              err |-> "TypeError"]
        ELSE LET f == ValidFrom(Iter(raw), 1, reg, bcols, <<>>)
             IN  [reg |-> f.reg, snapshot |-> Invalidated(snapshot),
                  order_by |-> OrderByTuple(f.val), err |-> "none"]

\* "del row[key]" for every key that is no declared column name
DropUnknown(row, decl_colnames) == [k \in DOMAIN row \cap decl_colnames |-> row[k]]

\* "row[column.declared_name] = column.column.default" for every missing one
FillDefaults(row, bcs) ==
    LET names == {bcs[j].declared_name : j \in 1..Len(bcs)}
        first(k) == CHOOSE j \in 1..Len(bcs) :
                        /\ bcs[j].declared_name = k
                        /\ \A m \in 1..Len(bcs) : bcs[m].declared_name = k => j <= m
    IN  [k \in DOMAIN row \cup names |->
            IF k \in DOMAIN row THEN row[k] ELSE bcs[first(k)].column.default]

RECURSIVE NormaliseFrom(_, _, _, _, _)
NormaliseFrom(ids, i, reg, bcols, heap) ==
    IF i > Len(ids) THEN [reg |-> reg, heap |-> heap]
    ELSE LET a1 == ColumnsAll(reg, bcols)
             decl_colnames == {a1.val[j].declared_name : j \in 1..Len(a1.val)}
             a2 == ColumnsAll(a1.reg, bcols)
             row == FillDefaults(DropUnknown(heap[ids[i]], decl_colnames), a2.val)
         IN  NormaliseFrom(ids, i + 1, a2.reg, bcols, [heap EXCEPT ![ids[i]] = row])

Aliased(data) == [is_copy |-> FALSE, v |-> data.v]

\* copy.copy(self._data): a new list object holding the same references
ShallowCopy(data) == [is_copy |-> TRUE, v |-> data.v]

\* "self._snapshot = snapshot" after sort_table(snapshot, f.val), unless
\* _cols_to_fields (f) raised KeyError; n is what the normalisation left
StoreSorted(snapshot, data, n, f) ==
    IF f.err # "none"
    THEN [reg |-> f.reg, heap |-> n.heap, err |-> f.err, snapshot |-> None,
          data |-> data, built |-> FALSE]
    ELSE LET sorted == List(sort_table(snapshot.v, n.heap, f.val))
         IN  [reg |-> f.reg, heap |-> n.heap, err |-> "none", snapshot |-> sorted,
              data |-> IF snapshot.is_copy THEN data ELSE sorted, built |-> TRUE]

\* "if self.order_by: sort_table(...)" and the assignment of self._snapshot
SortNormalised(snapshot, data, bcols, order_by, n) ==
    IF Truthy(order_by)
    THEN StoreSorted(snapshot, data, n, _cols_to_fields(n.reg, bcols, order_by))
    ELSE [reg |-> n.reg, heap |-> n.heap, err |-> "none",
          snapshot |-> List(snapshot.v), data |-> data, built |-> TRUE]

\* the body of _build_snapshot on the list object snapshot
BuildOn(snapshot, reg, bcols, data, heap, order_by) ==
    SortNormalised(snapshot, data, bcols, order_by,
                   NormaliseFrom(snapshot.v, 1, reg, bcols, heap))

\* BaseTable._build_snapshot(): the rows are changed in place, the list of
\* references is copied, and self._snapshot is set unless KeyError is raised;
\* data is what self._data holds afterwards (sort_table sorts the list object
\* it is given), built tells whether self._snapshot was assigned
_build_snapshot(reg, bcols, data, heap, order_by) ==
    BuildOn(ShallowCopy(data), reg, bcols, data, heap, order_by)

AlwaysMissing(snapshot) == TRUE

\* "if self._snapshot is None"
SnapshotMissing(snapshot) == snapshot = None

\* BaseTable._get_data()
_get_data(reg, bcols, data, heap, order_by, snapshot) ==
    IF SnapshotMissing(snapshot)
    THEN _build_snapshot(reg, bcols, data, heap, order_by)
    ELSE [reg |-> reg, heap |-> heap, err |-> "none", snapshot |-> snapshot,
          data |-> data, built |-> FALSE]

\* KeyError(*args)
KeyError(args) == [kind |-> "KeyError", v |-> args]

\* repr() of a str without quotes or escapes in it
Repr(s) == <<"'">> \o s \o <<"'">>

BareMessage(name) == Str(<<"K", "e", "y">>)

\* 'Key %r not found in Table' % name
NotFoundMessage(name) ==
    Str(<<"K", "e", "y", " ">> \o Repr(name)
        \o <<" ", "n", "o", "t", " ", "f", "o", "u", "n", "d", " ", "i", "n", " ",
             "T", "a", "b", "l", "e">>)

\* BoundColumn(self, column, name) as BaseTable.__getitem__ builds it: column
\* is the bound column the registry returned
TableItem(column, name) ==
    [table |-> "table", column |-> column, declared_name |-> name,
     sortable |-> column.sortable, visible |-> column.visible]

\* BoundColumn.name of such an item: column.name is BoundColumn.name again
TableItemName(item) ==
    IF BoundName(item.column) # NoName THEN BoundName(item.column) ELSE item.declared_name

\* BaseTable.__getitem__(name): val is the exception when err is KeyError
TableGetItem(reg, bcols, name) ==
    LET g == ColumnsGetItem(reg, bcols, name)
    IN  IF g.err # "none"
        THEN [reg |-> g.reg, err |-> "KeyError", val |-> KeyError(<<NotFoundMessage(name)>>)]
        ELSE [reg |-> g.reg, err |-> "none", val |-> TableItem(g.val[1], name)]

(* ------------------------------- BoundRow ------------------------------ *)
\* BoundRow.__getitem__(name) on the row dict data: a name missing from the
\* registry, or a declared name missing from the dict, raises KeyError
BoundRowGetItem(reg, bcols, data, name) ==
    LET g == ColumnsGetItem(reg, bcols, name)
    IN  IF g.err # "none"
        THEN [reg |-> g.reg, err |-> "KeyError", val |-> KeyError(<<Str(name)>>)]
        ELSE LET declared_name == g.val[1].declared_name
             IN  IF declared_name \in DOMAIN data
                 THEN [reg |-> g.reg, err |-> "none", val |-> data[declared_name]]
                 ELSE [reg |-> g.reg, err |-> "KeyError",
                       val |-> KeyError(<<Str(declared_name)>>)]

RECURSIVE ValuesFrom(_, _, _, _, _, _)
ValuesFrom(columns, i, reg, bcols, data, acc) ==
    IF i > Len(columns) THEN [reg |-> reg, err |-> "none", val |-> List(acc)]
    ELSE LET g == BoundRowGetItem(reg, bcols, data, BoundName(columns[i]))
         IN  IF g.err # "none" THEN g
             ELSE ValuesFrom(columns, i + 1, g.reg, bcols, data, Append(acc, g.val))

\* list(row): BoundRow._get_values() over the visible bound columns
BoundRowValues(reg, bcols, data) ==
    LET it == ColumnsIter(reg, bcols)
    IN  ValuesFrom(it.val, 1, it.reg, bcols, data, <<>>)

(* ------------------------- inputs of the model ------------------------- *)
\* Column(), Column(default=1), Column(name="ab", default=1),
\* Column(sortable=False, visible=False, default=1), Column(name="a", default=1)
ColPlain == Column(NoName, TRUE, TRUE, NoneVal, 1)
ColDefault == Column(NoName, TRUE, TRUE, 1, 2)
ColAlias == Column(AB, TRUE, TRUE, 1, 2)
ColHidden == Column(NoName, FALSE, FALSE, 1, 2)
ColShadow == Column(A, TRUE, TRUE, 1, 2)
ColLate == Column(NoName, TRUE, FALSE, 0, 3)

\* table classes: the merged base_columns and the Meta.order_by default
\* (None when the class declares none)
TableClass(cols, default_order) == [base_columns |-> cols, meta_order_by |-> default_order]

TableClasses ==
    { TableClass(<<Item(A, ColPlain), Item(B, ColDefault)>>, None),
      TableClass(<<Item(A, ColPlain), Item(B, ColDefault)>>, Str(A)),
      TableClass(<<Item(A, ColPlain), Item(B, ColAlias)>>, None),
      TableClass(<<Item(A, ColPlain), Item(B, ColHidden)>>, None),
      TableClass(<<Item(A, ColPlain), Item(B, ColShadow)>>, None) }

\* source rows; Row4 lacks b and carries the undeclared key z
Row1 == (A :> 1) @@ (B :> 1)
Row2 == (A :> 0) @@ (B :> 2)
Row3 == (A :> 2) @@ (B :> 0)
Row4 == (A :> 1) @@ (Z :> 2)
Row5 == (A :> 0) @@ (B :> 2)

RowSeqs == { <<Row1, Row2, Row3, Row4, Row5>>, <<Row4, Row3, Row1, Row5, Row2>> }

Datasets == { SubSeq(rs, 1, k) : rs \in RowSeqs, k \in 0..MaxRows }

\* values given as order_by: None, '', (), [], 'a', '-a', 'a,-b', 'ab', 'q',
\* ('b',), ('-b', 'a'), ('q', 'a'), ['ab']
OrderInputs ==
    { None, Str(<<>>), Tuple(<<>>), List(<<>>),
      Str(A), Str(<<"-", "a">>), Str(<<"a", ",", "-", "b">>), Str(AB), Str(Q),
      Tuple(<<B>>), Tuple(<<(<<"-", "b">>), A>>), Tuple(<<Q, A>>), List(<<AB>>) }

\* the order_by argument of a constructor call; omitted selects the default
CtorArgs == { [omitted |-> TRUE, value |-> None] }
            \cup { [omitted |-> FALSE, value |-> v] : v \in OrderInputs }

\* the smaller choice of order_by values used where base_columns changes too
RegistryOrders == { None, Str(A), Str(AB), Tuple(<<(<<"-", "b">>), A>>) }
RegistryCtorArgs == { [omitted |-> TRUE, value |-> None],
                      [omitted |-> FALSE, value |-> Tuple(<<B>>)] }
RegistryDatasets == { SubSeq(<<Row4, Row3, Row1, Row5, Row2>>, 1, k) : k \in {0, MaxRows} }

\* declared names and columns used to change an instance's base_columns
MutNames == {B, C}
MutColumns == {ColLate, ColShadow}

(* -------------------- inputs of the metaclass model -------------------- *)
DeclNames == {A, B, C}

\* the sequences without repetition over a set, up to a length
RECURSIVE SeqsUpTo(_, _)
SeqsUpTo(S, n) ==
    IF n = 0 THEN {<<>>}
    ELSE LET shorter == SeqsUpTo(S, n - 1)
         IN  shorter \cup
             {Append(q, x) : q \in {r \in shorter : Len(r) = n - 1},
                             x \in S} 

Distinct(q) == \A i, j \in 1..Len(q) : i # j => q[i] # q[j]
NameSeqs == {q \in SeqsUpTo(DeclNames, MaxCols) : Distinct(q)}

\* a mapping of a base class b: its columns were created before the body's
BaseMapping(b, names) ==
    [i \in 1..Len(names) |->
        Item(names[i], Column(NoName, TRUE, TRUE, NoneVal, 10 * b + i))]

DeclaredPart(mapping) == IF mapping = <<>> THEN <<>> ELSE Tail(mapping)

\* object (no mapping), a plain table, or a table whose derived metaclass
\* keeps the declared part of base_columns under declared_columns
BaseClasses(b) ==
    {BaseClass(<<>>, <<>>)}
    \cup {BaseClass(<<BaseMapping(b, q)>>, <<>>) : q \in NameSeqs}
    \cup {BaseClass(<<BaseMapping(b, q)>>, <<DeclaredPart(BaseMapping(b, q))>>) :
              q \in NameSeqs}

\* a class body declaring the columns q in this order, after the bases
BodyItems(q) ==
    [i \in 1..Len(q) |->
        Item(q[i], ColumnObj(Column(NoName, TRUE, TRUE, NoneVal, 30 + i)))]

Orderings(q) ==
    {r \in [1..Len(q) -> {q[i] : i \in 1..Len(q)}] : Distinct(r)}

\* attrs.items() lists the body in any order; the body also holds a method
Namespaces ==
    UNION {{<<Item(Z, OtherObj)>> \o r : r \in Orderings(BodyItems(q))} :
              q \in NameSeqs}

(* -------------------------------- state -------------------------------- *)
VARIABLES
    cls,            \* the table class: base_columns and Meta.order_by
    pc,             \* "class" before the table is constructed, then "live"
    _data,          \* self._data: the list of references to the source rows
    heap,           \* the row dicts, by reference
    _snapshot,      \* self._snapshot
    _order_by,      \* self._order_by, which the order_by property returns
    base_columns,   \* self.base_columns
    _columns,       \* self._columns: the registry, cols and wrapper count
    given,          \* the last order_by argument: constructor or assignment
    op, err, ret,   \* the last operation, the exception it raised, its result
    muts,           \* number of changes made to self.base_columns
    builds,         \* assignments of self._snapshot by _build_snapshot since
                    \* the last assignment of order_by
    hit,            \* the last read of data found the snapshot cached
    asked,          \* the name asked for by the last lookup
    type_base_columns,  \* type(self).base_columns, the mapping of the class
    other,          \* a second instance of the class: base_columns, _order_by
    refs,           \* the mapping object each instance's base_columns refers to
    bases,          \* the base classes of the class being built
    attrs,          \* its namespace, as the metaclass leaves it
    declared,       \* the Column attributes of its body, as first extracted
    read,           \* the items read from the bases, one sequence per run
    dpc             \* "idle", or "body", "built", "rebuilt"

declvars == <<bases, attrs, declared, read, dpc>>

peervars == <<type_base_columns, other, refs>>

vars == <<cls, pc, _data, heap, _snapshot, _order_by, base_columns, _columns,
          given, op, err, ret, muts, builds, hit, asked, peervars, declvars>>

\* no class is being built
DeclIdle ==
    /\ bases = <<>>
    /\ attrs = [ns |-> <<>>, base_columns |-> <<>>]
    /\ declared = <<>>
    /\ read = <<>>
    /\ dpc = "idle"

\* the second instance before it is constructed
NoOther == [live |-> FALSE, base_columns |-> <<>>, _order_by |-> None, given |-> None]

\* no table exists yet
TableIdle ==
    /\ pc = "class"
    /\ _data = List(<<>>)
    /\ heap = <<>>
    /\ _snapshot = None
    /\ _order_by = None
    /\ base_columns = <<>>
    /\ _columns = [cols |-> <<>>, n |-> 0]
    /\ given = [by |-> "none", omitted |-> TRUE, value |-> None]
    /\ op = "none"
    /\ err = "none"
    /\ ret = None
    /\ muts = 0
    /\ builds = 0
    /\ hit = FALSE
    /\ asked = [name |-> NoName, row |-> 0]
    /\ type_base_columns = cls.base_columns
    /\ other = NoOther
    /\ refs = [self |-> "none", other |-> "none"]

Init ==
    /\ cls \in TableClasses
    /\ TableIdle
    /\ DeclIdle

\* the value self._order_by gets in __init__
InitialOrderBy(order_by) == order_by

SameObject(ref, fresh) == ref

\* copy.deepcopy(type(self).base_columns): a new mapping object, fresh
deepcopy(ref, fresh) == fresh

\* what the holder of the mapping object holder_ref reads after an item
\* assignment or deletion on the mapping object written_ref
Seen(holder_ref, written_ref, new, old) == IF holder_ref = written_ref THEN new ELSE old

NoArg == [name |-> NoName, row |-> 0]

\* BaseTable.__init__(data, order_by=None)
Construct(data, a) ==
    LET order_by == IF a.omitted THEN None ELSE a.value
    IN  /\ pc = "class"
        /\ pc' = "live"
        /\ _data' = List([i \in 1..Len(data) |-> i])
        /\ heap' = data
        /\ _snapshot' = None
        /\ _columns' = [cols |-> <<>>, n |-> 0]
        /\ _order_by' = InitialOrderBy(order_by)
        /\ base_columns' = type_base_columns
        /\ refs' = [refs EXCEPT !.self = deepcopy("class", "self")]
        /\ given' = [by |-> "ctor", omitted |-> a.omitted, value |-> order_by]
        /\ op' = "init"
        /\ err' = "none"
        /\ ret' = None
        /\ builds' = 0
        /\ hit' = FALSE
        /\ asked' = NoArg
        /\ UNCHANGED <<declvars, cls, muts, type_base_columns, other>>

\* a second table of the same class: BaseTable.__init__(data, order_by)
ConstructOther(a) ==
    LET order_by == IF a.omitted THEN None ELSE a.value
    IN  /\ pc = "live"
        /\ ~other.live
        /\ other' = [live |-> TRUE, base_columns |-> type_base_columns,
                     _order_by |-> InitialOrderBy(order_by), given |-> order_by]
        /\ refs' = [refs EXCEPT !.other = deepcopy("class", "other")]
        /\ UNCHANGED <<declvars, cls, pc, _data, heap, _snapshot, _order_by, base_columns,
                       _columns, given, op, err, ret, muts, builds, hit, asked,
                       type_base_columns>>

\* table.order_by = value
AssignOrderBy(value, r) ==
    /\ pc = "live"
    /\ _snapshot' = r.snapshot
    /\ _order_by' = r.order_by
    /\ _columns' = r.reg
    /\ given' = [by |-> "assign", omitted |-> FALSE, value |-> value]
    /\ op' = "set_order_by"
    /\ err' = r.err
    /\ ret' = None
    /\ builds' = 0
    /\ hit' = FALSE
    /\ asked' = NoArg
    /\ UNCHANGED <<declvars, peervars, cls, pc, _data, heap, base_columns, muts>>

SetOrderBy(value) ==
    AssignOrderBy(value, _set_order_by(_columns, base_columns, _snapshot, value))

\* what reading table.data gives now
ReadTable == _get_data(_columns, base_columns, _data, heap, _order_by, _snapshot)

\* the effect of reading table.data, shared by the iteration of table.rows;
\* r is what _get_data gives
ReadDataAs(name, r) ==
    /\ pc = "live"
    /\ _snapshot' = r.snapshot
    /\ _data' = r.data
    /\ heap' = r.heap
    /\ _columns' = r.reg
    /\ op' = name
    /\ err' = r.err
    /\ ret' = r.snapshot
    /\ builds' = IF r.built /\ builds < MaxBuilds THEN builds + 1 ELSE builds
    /\ hit' = (_snapshot # None)
    /\ asked' = NoArg
    /\ UNCHANGED <<declvars, peervars, cls, pc, _order_by, base_columns, given, muts>>

ReadData(name) == ReadDataAs(name, ReadTable)

\* table.data
GetData == ReadData("data")

\* list(table.rows): _get_rows reads self.data and wraps each row
GetRows == ReadData("rows")

\* list(table.columns.all())
QueryAll ==
    LET r == ColumnsAll(_columns, base_columns)
    IN  /\ pc = "live"
        /\ _columns' = r.reg
        /\ op' = "all"
        /\ err' = "none"
        /\ ret' = List(r.val)
        /\ hit' = FALSE
        /\ asked' = NoArg
        /\ UNCHANGED <<declvars, peervars, cls, pc, _data, heap, _snapshot, _order_by,
                       base_columns, given, muts, builds>>

\* list(table.columns)
QueryIter ==
    LET r == ColumnsIter(_columns, base_columns)
    IN  /\ pc = "live"
        /\ _columns' = r.reg
        /\ op' = "iter"
        /\ err' = "none"
        /\ ret' = List(r.val)
        /\ hit' = FALSE
        /\ asked' = NoArg
        /\ UNCHANGED <<declvars, peervars, cls, pc, _data, heap, _snapshot, _order_by,
                       base_columns, given, muts, builds>>

\* an item assignment or deletion on self.base_columns leaves new there
WriteBaseColumns(new, name) ==
    /\ pc = "live"
    /\ muts < MaxMut
    /\ muts' = muts + 1
    /\ base_columns' = new
    /\ type_base_columns' = Seen("class", refs.self, new, type_base_columns)
    /\ other' = IF other.live
                THEN [other EXCEPT !.base_columns = Seen(refs.other, refs.self, new, @)]
                ELSE other
    /\ op' = name
    /\ err' = "none"
    /\ ret' = None
    /\ hit' = FALSE
    /\ asked' = NoArg
    /\ UNCHANGED <<declvars, cls, pc, _data, heap, _snapshot, _order_by, _columns, given,
                   builds, refs>>

\* table.base_columns[name] = column
SetBaseColumn(name, column) ==
    WriteBaseColumns(SDSet(base_columns, name, column), "set_column")

\* del table.base_columns[name]
DelBaseColumn(name) ==
    /\ SDHas(base_columns, name)
    /\ WriteBaseColumns(SDDel(base_columns, name), "del_column")

NextSort ==
    \/ \E data \in Datasets, arg \in CtorArgs : Construct(data, arg)
    \/ \E value \in OrderInputs : SetOrderBy(value)
    \/ GetData
    \/ GetRows

\* order_by assignments and reads of data and rows on one table
SpecSort == Init /\ [][NextSort]_vars

Next ==
    \/ \E data \in RegistryDatasets, arg \in RegistryCtorArgs : Construct(data, arg)
    \/ \E value \in RegistryOrders : SetOrderBy(value)
    \/ GetData
    \/ GetRows
    \/ QueryAll
    \/ QueryIter
    \/ \E name \in MutNames, column \in MutColumns : SetBaseColumn(name, column)
    \/ \E name \in MutNames : DelBaseColumn(name)

Spec == Init /\ [][Next]_vars

\* table[name]
GetItem(name) ==
    LET r == TableGetItem(_columns, base_columns, name)
    IN  /\ pc = "live"
        /\ _columns' = r.reg
        /\ op' = "getitem"
        /\ err' = r.err
        /\ ret' = r.val
        /\ hit' = FALSE
        /\ asked' = [name |-> name, row |-> 0]
        /\ UNCHANGED <<declvars, peervars, cls, pc, _data, heap, _snapshot, _order_by,
                       base_columns, given, muts, builds>>

\* table.columns[name]
Lookup(name) ==
    LET r == ColumnsGetItem(_columns, base_columns, name)
    IN  /\ pc = "live"
        /\ _columns' = r.reg
        /\ op' = "lookup"
        /\ err' = r.err
        /\ ret' = IF r.err = "none" THEN r.val[1] ELSE KeyError(<<Str(name)>>)
        /\ hit' = FALSE
        /\ asked' = [name |-> name, row |-> 0]
        /\ UNCHANGED <<declvars, peervars, cls, pc, _data, heap, _snapshot, _order_by,
                       base_columns, given, muts, builds>>

\* the effect of an access to the i-th bound row of table.rows, which reads
\* table.data first (r); g is what the access itself gives
ReadRow(i, name, asked_name, r, g) ==
    /\ pc = "live"
    /\ i \in 1..Len(_data.v)
    /\ _snapshot' = r.snapshot
    /\ _data' = r.data
    /\ heap' = r.heap
    /\ builds' = IF r.built /\ builds < MaxBuilds THEN builds + 1 ELSE builds
    /\ hit' = (_snapshot # None)
    /\ op' = name
    /\ asked' = [name |-> asked_name, row |-> i]
    /\ IF r.err # "none"
       THEN /\ _columns' = r.reg
            /\ err' = r.err
            /\ ret' = None
       ELSE /\ _columns' = g.reg
            /\ err' = g.err
            /\ ret' = g.val
    /\ UNCHANGED <<declvars, peervars, cls, pc, _order_by, base_columns, given, muts>>

\* list(table.rows)[i - 1][name]
RowGetItemAs(i, name, r) ==
    ReadRow(i, "row_getitem", name, r,
            BoundRowGetItem(r.reg, base_columns, r.heap[r.snapshot.v[i]], name))

RowGetItem(i, name) == RowGetItemAs(i, name, ReadTable)

\* list(list(table.rows)[i - 1])
RowIterAs(i, r) ==
    ReadRow(i, "row_iter", NoName, r,
            BoundRowValues(r.reg, base_columns, r.heap[r.snapshot.v[i]]))

RowIter(i) == RowIterAs(i, ReadTable)

\* the names looked up: ab is exposed by one class only, c by no class
LookupNames == {A, B, AB, C}

\* the rows and the order_by values of the tables that are looked up
LookupDatasets == { SubSeq(<<Row4, Row3, Row1, Row5, Row2>>, 1, MaxRows - 1) }
LookupOrders == { Str(AB), Tuple(<<(<<"-", "b">>), A>>) }
LookupColumns == { ColLate }

NextLookup ==
    \/ \E data \in LookupDatasets, a \in RegistryCtorArgs : Construct(data, a)
    \/ \E value \in LookupOrders : SetOrderBy(value)
    \/ GetData
    \/ \E name \in MutNames, column \in LookupColumns : SetBaseColumn(name, column)
    \/ \E name \in MutNames : DelBaseColumn(name)
    \/ \E name \in LookupNames : GetItem(name)
    \/ \E name \in LookupNames : Lookup(name)
    \/ \E i \in 1..(MaxRows - 1), name \in LookupNames : RowGetItem(i, name)
    \/ \E i \in 1..(MaxRows - 1) : RowIter(i)

\* lookups of columns and of row values on a table that is read and changed
SpecLookup == Init /\ [][NextLookup]_vars

\* the data of the tables whose rows are not looked at
PeerDatasets == { SubSeq(<<Row4, Row3, Row1>>, 1, k) : k \in {0, 1} }

NextPeers ==
    \/ \E data \in PeerDatasets, a \in RegistryCtorArgs : Construct(data, a)
    \/ \E a \in RegistryCtorArgs : ConstructOther(a)
    \/ \E value \in RegistryOrders : SetOrderBy(value)
    \/ \E name \in MutNames, column \in MutColumns : SetBaseColumn(name, column)
    \/ \E name \in MutNames : DelBaseColumn(name)

\* two tables of one class, one of which is changed
SpecPeers == Init /\ [][NextPeers]_vars

(* ------------------------ building one class --------------------------- *)
tablevars == <<cls, pc, _data, heap, _snapshot, _order_by, base_columns, _columns,
               given, op, err, ret, muts, builds, hit, asked, peervars>>

InitDecl ==
    /\ cls = TableClass(<<>>, None)
    /\ TableIdle
    /\ \E b1 \in BaseClasses(1), b2 \in BaseClasses(2) : bases = <<b1, b2>>
    /\ \E ns \in Namespaces : attrs = [ns |-> ns, base_columns |-> <<>>]
    /\ declared = <<>>
    /\ read = <<>>
    /\ dpc = "body"

\* a base built by a derived metaclass, such as ModelTable
IsModelTable(base) == HasAttr(base, "declared_columns")
IsPlainTable(base) == HasAttr(base, "base_columns") /\ ~IsModelTable(base)

\* the metaclass the class statement calls first is this one when the first
\* base is a plain table or no base is a model table, otherwise the derived
\* one, which passes its parent_cols_from
EntryAttr(bs) ==
    IF ~IsPlainTable(bs[1]) /\ \E b \in 1..Len(bs) : IsModelTable(bs[b])
    THEN "declared_columns" ELSE NoAttr

\* the class statement runs the metaclass on the body
New(parent_cols_from) ==
    /\ dpc = "body"
    /\ parent_cols_from = EntryAttr(bases)
    /\ dpc' = "built"
    /\ attrs' = MetaNew(bases, attrs, parent_cols_from)
    /\ declared' = SortByCounter(ExtractColumns(attrs.ns))
    /\ read' = <<AddBases(bases, parent_cols_from, <<>>)>>
    /\ UNCHANGED <<bases, tablevars>>

\* type.__new__ hands the same namespace to a derived metaclass, which runs
\* this one again with its own parent_cols_from
Rerun ==
    /\ dpc = "built"
    /\ EntryAttr(bases) = NoAttr
    /\ \E b \in 1..Len(bases) : IsModelTable(bases[b])
    /\ dpc' = "rebuilt"
    /\ attrs' = MetaNew(bases, attrs, "declared_columns")
    /\ read' = Append(read, AddBases(bases, "declared_columns", <<>>))
    /\ UNCHANGED <<bases, declared, tablevars>>

NextDecl ==
    \/ \E parent_cols_from \in {NoAttr, "declared_columns"} : New(parent_cols_from)
    \/ Rerun

SpecDecl == InitDecl /\ [][NextDecl]_vars

(* ----------------------- vocabulary of the claims ---------------------- *)
Live == pc = "live"
IsRead == op \in {"data", "rows"}

\* the identifiers a given order_by value stands for
Identifiers(value) ==
    IF value.kind = "str" THEN Split(value.v)
    ELSE IF value.kind = "none" THEN <<>> ELSE value.v

\* name is the exposed name of a sortable column of bcols
NamesSortable(bcols, name) ==
    \E i \in 1..Len(bcols) :
        /\ ExposedName(bcols[i].key, bcols[i].value) = name
        /\ bcols[i].value.sortable

IsValidIdent(o) == NamesSortable(base_columns, StripDash(o))

\* the given identifiers that name a sortable column, in their given order
ValidIdentifiers(value) == SelectSeq(Identifiers(value), IsValidIdent)

\* the declared name behind an exposed name (the last column exposing it)
HasExposed(bcols, name) ==
    \E i \in 1..Len(bcols) : ExposedName(bcols[i].key, bcols[i].value) = name
DeclaredOf(bcols, name) ==
    LET is == {i \in 1..Len(bcols) : ExposedName(bcols[i].key, bcols[i].value) = name}
    IN  bcols[CHOOSE i \in is : \A j \in is : j <= i].key

\* the (declared name, descending?) keys of a sort specification
SortKeys(order_by, bcols) ==
    LET idents == Iter(order_by)
    IN  [i \in 1..Len(idents) |->
            [name |-> DeclaredOf(bcols, StripDash(idents[i])),
             desc |-> First1(idents[i]) = <<"-">>]]

KeyEqual(x, y, keys) ==
    \A i \in 1..Len(keys) : DictGet(x, keys[i].name) = DictGet(y, keys[i].name)

\* x comes strictly before y: they differ first on a key that orders x first
KeyBefore(x, y, keys) ==
    \E i \in 1..Len(keys) :
        /\ \A j \in 1..(i - 1) : DictGet(x, keys[j].name) = DictGet(y, keys[j].name)
        /\ IF keys[i].desc
           THEN DictGet(x, keys[i].name) > DictGet(y, keys[i].name)
           ELSE DictGet(x, keys[i].name) < DictGet(y, keys[i].name)

\* snap holds the rows of data, ordered by keys, ties left in source order
IsStableSort(snap, data, keys) ==
    /\ Len(snap) = Len(data)
    /\ \A i \in 1..Len(data) : \E j \in 1..Len(snap) : snap[j] = data[i]
    /\ \A i, j \in 1..Len(snap) :
          i < j => /\ ~KeyBefore(heap[snap[j]], heap[snap[i]], keys)
                   /\ KeyEqual(heap[snap[i]], heap[snap[j]], keys) => snap[i] < snap[j]

\* what building the snapshot now, under the current order_by, would give
Rebuilt == _build_snapshot(_columns, base_columns, _data, heap, _order_by).snapshot

(* ------------------------------- claims -------------------------------- *)
\* C1: assigning order_by always leaves no cached snapshot, and a cached
\* snapshot, like the result of every successful read of data or rows, is
\* the one built under the current sort specification, never an earlier one.
C1_AssignInvalidates ==
    /\ op = "set_order_by" => _snapshot = None
    /\ _snapshot # None => _snapshot = Rebuilt
    /\ (IsRead /\ err = "none") => (ret = _snapshot /\ ret = Rebuilt)

\* a read after an assignment returned rows in an order other than the source's
C1_Witness ==
    /\ op = "data" /\ err = "none" /\ given.by = "assign"
    /\ Truthy(_order_by) /\ ret.v # _data.v

\* C2: order_by None, (), [] or omitted all read back as () and data reads
\* succeed with the rows in source order.
C2_EmptyEquivalent ==
    (Live /\ given.value \in {None, Tuple(<<>>), List(<<>>)}) =>
        /\ err = "none"
        /\ _order_by = Tuple(<<>>)
        /\ IsRead => ret = _data

\* C3: order_by always reads back as a tuple, never a raw string or None; a
\* string or sequence of valid identifiers reads back as the tuple of them.
C3_Normalized ==
    Live =>
        /\ _order_by.kind = "tuple"
        /\ (\A i \in 1..Len(Identifiers(given.value)) :
                IsValidIdent(Identifiers(given.value)[i]))
           => _order_by = Tuple(Identifiers(given.value))

\* C4: for every given order_by no operation raises, and the effective sort
\* specification is exactly the given identifiers that name a sortable column.
C4_InvalidNeverError ==
    (Live /\ given.value.kind # "none") =>
        /\ err = "none"
        /\ _order_by = Tuple(ValidIdentifiers(given.value))

C7_ClassDefault ==
    Live =>
        /\ (given.by = "ctor" /\ given.omitted) =>
              _order_by = Tuple(ValidIdentifiers(cls.meta_order_by))
        /\ (~given.omitted /\ given.value # None) =>
              _order_by = Tuple(ValidIdentifiers(given.value))
        /\ (~given.omitted /\ given.value = None) =>
              /\ err = "none"
              /\ _order_by = Tuple(<<>>)
              /\ IsRead => ret = _data

\* C5: every row of a cached snapshot has exactly the declared column names
\* of the table as its keys.
C5_SnapshotColumns ==
    _snapshot # None =>
        \A i \in 1..Len(_snapshot.v) :
            DOMAIN heap[_snapshot.v[i]] =
                {base_columns[j].key : j \in 1..Len(base_columns)}

\* C10: all() yields one bound column per declared column, in declaration
\* order, and the default iteration the ones whose column is visible.
C10_OnePerDeclared ==
    /\ op = "all" =>
          /\ Len(ret.v) = Len(base_columns)
          /\ \A i \in 1..Len(ret.v) :
                /\ ret.v[i].declared_name = base_columns[i].key
                /\ ret.v[i].column = base_columns[i].value
    /\ op = "iter" =>
          LET visible == SelectSeq(base_columns, LAMBDA it : it.value.visible)
          IN  /\ Len(ret.v) = Len(visible)
              /\ \A i \in 1..Len(ret.v) :
                    /\ ret.v[i].declared_name = visible[i].key
                    /\ ret.v[i].column = visible[i].value


(* ---------------------- claims about the metaclass --------------------- *)
Built == dpc \in {"built", "rebuilt"}
merged == attrs.base_columns[1]
KeySet(items) == {items[i].key : i \in 1..Len(items)}
IndexOf(q, x) == CHOOSE i \in 1..Len(q) : q[i] = x

\* the keys of items, each at its first occurrence
FirstKeys(items) ==
    SDKeys(SelectSeq([i \in 1..Len(items) |-> [key |-> items[i].key, value |-> i]],
                     LAMBDA it : \A j \in 1..(it.value - 1) : items[j].key # it.key))

\* all items read from the bases, over the runs of the metaclass
AllRead == IF Len(read) = 2 THEN read[1] \o read[2] ELSE read[1]

\* C8: the merged mapping has one entry per distinct name of the bases and
\* the body; a name of both maps to the body's column at the position it had
\* among the bases' columns; the body's columns leave the namespace.
C8_MergedMapping ==
    Built =>
        /\ Distinct(SDKeys(merged))
        /\ KeySet(merged) = KeySet(AllRead) \cup KeySet(declared)
        /\ \A i \in 1..Len(declared) :
              /\ SDGet(merged, declared[i].key) = declared[i].value
              /\ declared[i].key \in KeySet(AllRead) =>
                    IndexOf(SDKeys(merged), declared[i].key)
                        = IndexOf(FirstKeys(AllRead), declared[i].key)
        /\ \A i \in 1..Len(attrs.ns) : ~IsColumn(attrs.ns[i].value)
        /\ \E i \in 1..Len(attrs.ns) : attrs.ns[i].key = Z

NoCollisions == Distinct(SDKeys(read[1] \o declared))
Ascending(items) ==
    \A i, j \in 1..Len(items) :
        i < j => items[i].value.creation_counter <= items[j].value.creation_counter

\* C9: without name collisions the merged mapping is the columns of the
\* bases, base after base in each base's own order, followed by the body's
\* columns in ascending creation order.
C9_DeclarationOrder ==
    (Built /\ NoCollisions) =>
        /\ Ascending(declared)
        /\ merged = read[1] \o declared

\* both bases bring a column, and the body a third one
C9_Witness ==
    /\ dpc = "built" /\ NoCollisions
    /\ HasAttr(bases[1], "base_columns") /\ HasAttr(bases[2], "base_columns")
    /\ Len(read[1]) = 2 /\ Len(declared) = 1 /\ Len(merged) = 3

(* ---------------------- claims about two instances --------------------- *)
\* C11: whatever is assigned to one table's base_columns and order_by, the
\* mapping of the class and the base_columns and order_by of another table of
\* the class stay what they were.
C11_Isolated ==
    Live =>
        /\ type_base_columns = cls.base_columns
        /\ other.live =>
              /\ other.base_columns = cls.base_columns
              /\ other._order_by = other.given

\* both tables exist, and the first one's columns and order_by were changed
C11_Witness ==
    /\ Live /\ other.live
    /\ muts > 0 /\ base_columns # cls.base_columns
    /\ given.by = "assign" /\ _order_by # other._order_by

(* ------------------------- claims about lookups ------------------------ *)
\* the string s holds sub as a substring
Contains(s, sub) ==
    \E i \in 0..(Len(s) - Len(sub)) : SubSeq(s, i + 1, i + Len(sub)) = sub

\* the exception exc is a KeyError with name in one of its arguments
Carries(exc, name) ==
    /\ exc.kind = "KeyError"
    /\ \E k \in 1..Len(exc.v) : exc.v[k].kind = "str" /\ Contains(exc.v[k].v, name)

IsLookup == op \in {"getitem", "lookup"}

\* no two declared columns of bcols have the same exposed name
DistinctExposed(bcols) ==
    \A i, j \in 1..Len(bcols) :
        ExposedName(bcols[i].key, bcols[i].value) = ExposedName(bcols[j].key, bcols[j].value)
            => i = j

\* C12: table[name] and table.columns[name] for a name that no column of the
\* table exposes raise a KeyError that carries name, and a lookup that raises
\* leaves order_by, the cached snapshot and base_columns as they were.
C12_NotFound ==
    /\ [](IsLookup /\ ~HasExposed(base_columns, asked.name) =>
             err = "KeyError" /\ Carries(ret, asked.name))
    /\ [][(op' \in {"getitem", "lookup"} /\ err' = "KeyError") =>
             UNCHANGED <<_order_by, _snapshot, base_columns, heap, _data>>]_vars

\* table['ab'] failed on a table that was read and whose columns were changed
C12_Witness ==
    /\ op = "getitem" /\ err = "KeyError" /\ asked.name = AB
    /\ _snapshot # None /\ muts > 0 /\ Truthy(_order_by)

\* C14: for an exposed name, table[name] is bound to the table, has name as
\* its exposed name, and has the name the column was declared under as its
\* declared name.
C14_KeyedAccess ==
    (op = "getitem" /\ err = "none" /\ DistinctExposed(base_columns)) =>
        /\ ret.table = "table"
        /\ TableItemName(ret) = asked.name
        /\ ret.declared_name = DeclaredOf(base_columns, asked.name)

(* ------------------------ claims about the cache ----------------------- *)
\* C13: since the last assignment of order_by the snapshot was built at most
\* once, and a read of data or rows that finds a snapshot returns that very
\* snapshot, rows unchanged, without building; only an assignment of
\* order_by takes a cached snapshot away.
C13_BuiltOnce ==
    /\ [](builds <= 1)
    /\ [][(_snapshot # None /\ op' \in {"data", "rows"}) =>
             /\ _snapshot' = _snapshot
             /\ ret' = _snapshot
             /\ heap' = heap
             /\ err' = "none"
             /\ builds' = builds]_vars
    /\ [][(_snapshot # None /\ _snapshot' # _snapshot) => op' = "set_order_by"]_vars

\* a read after an assignment found the sorted snapshot an earlier read built
C13_Witness ==
    /\ IsRead /\ hit /\ builds = 1
    /\ given.by = "assign" /\ ret = _snapshot /\ ret.v # _data.v

(* ------------------------ claims about the rows ------------------------ *)
\* the row dict behind the bound row that was accessed last
AskedRow == heap[_snapshot.v[asked.row]]

\* the declared columns that are visible now, in declaration order
VisibleNow == SelectSeq(base_columns, LAMBDA it : it.value.visible)

\* C15: on a table whose exposed names are distinct, row[name] for an exposed
\* name is the row dict's value under the declared name of that column, and
\* list(row) is these values for the columns visible now, in column order.
C15_RowValues ==
    (_snapshot # None /\ DistinctExposed(base_columns)) =>
        /\ (op = "row_getitem" /\ HasExposed(base_columns, asked.name)) =>
              /\ err = "none"
              /\ DeclaredOf(base_columns, asked.name) \in DOMAIN AskedRow
              /\ ret = AskedRow[DeclaredOf(base_columns, asked.name)]
        /\ op = "row_iter" =>
              /\ err = "none"
              /\ Len(ret.v) = Len(VisibleNow)
              /\ \A k \in 1..Len(VisibleNow) :
                    /\ VisibleNow[k].key \in DOMAIN AskedRow
                    /\ ret.v[k] = AskedRow[VisibleNow[k].key]

(* ---------------------- claims about the registry ---------------------- *)
\* C16: whenever the registry is rebuilt, an exposed name that was in it
\* keeps the identical bound column, and a name that was not in it gets a
\* bound column that did not exist before.
C16_StableWrappers ==
    [][\A i \in 1..Len(_columns'.cols) :
          LET name == _columns'.cols[i].key
              bound == _columns'.cols[i].value
          IN  IF SDHas(_columns.cols, name)
              THEN bound = SDGet(_columns.cols, name)
              ELSE bound.id > _columns.n]_vars

\* a query after a column was added: the first bound column is still there,
\* next to one created by a later rebuild
C16_Witness ==
    /\ op \in {"all", "iter"} /\ muts > 0
    /\ \E i, j \in 1..Len(_columns.cols) :
          /\ _columns.cols[i].value.id = 1
          /\ _columns.cols[j].value.id > Len(cls.base_columns)
          /\ \E k \in 1..Len(ret.v) : ret.v[k] = _columns.cols[i].value

\* C17: after a registry query on a table whose exposed names are distinct,
\* the cache holds, in declaration order, one bound column per declared
\* column, under its exposed name, wrapping the column and the declared name
\* that base_columns holds now.
C17_CacheConsistent ==
    (op \in {"all", "iter"} /\ DistinctExposed(base_columns)) =>
        /\ Len(_columns.cols) = Len(base_columns)
        /\ \A i \in 1..Len(base_columns) :
              /\ _columns.cols[i].key = ExposedName(base_columns[i].key, base_columns[i].value)
              /\ _columns.cols[i].value.column = base_columns[i].value
              /\ _columns.cols[i].value.declared_name = base_columns[i].key

(* ---------------------- claims about the raw data ---------------------- *)
\* C18: self._data always holds the references to the source rows in the
\* order they had at construction, whatever was assigned to order_by and
\* however often data and rows were read.
C18_RawDataKept ==
    Live => _data = List([i \in 1..Len(heap) |-> i])

\* the rows were read in an order that is not the source order
C18_Witness ==
    /\ op = "rows" /\ err = "none" /\ builds = 1
    /\ _snapshot # None /\ _snapshot.v # _data.v
    /\ Len(_data.v) = MaxRows
====
